---------------------------- MODULE Spec2Model ----------------------------
(***************************************************************************)
(* Relationship maintenance between Group, Student and Parent documents   *)
(* of the dance-school backend (backend/routes/students.js and            *)
(* backend/routes/groups.js).  Every request handler is one action: the   *)
(* handlers are run one at a time, each to completion, against the        *)
(* document store.                                                         *)
(*                                                                         *)
(* Strings are sequences of one-character strings, so that trim(),        *)
(* toLowerCase() and split(/\s+/) are computed, not assumed.  Array       *)
(* fields that the code only touches with $addToSet, $pull, a guarded     *)
(* push or a de-duplicated assignment are sets of ids.                    *)
(***************************************************************************)
EXTENDS Integers, Sequences, FiniteSets, TLC

VARIABLES groups, students, parents, nextStudent, nextParent, response, requests,
          updates, schedules, attendance, bulk

vars == <<groups, students, parents, nextStudent, nextParent, response, requests,
          updates, schedules, attendance, bulk>>

(***************************************************************************)
(* Bounds of the model.                                                    *)
(***************************************************************************)
MaxGroups == 2
MaxStudents == 2
MaxParents == 2
MaxPayload == 1
MaxRequests == 2
MaxUpdates == 2
MaxSchedules == 2
MaxMarks == 3
MaxDay == 15

GroupIds == 1..MaxGroups
StudentIds == 1..MaxStudents
ParentIds == 1..MaxParents

\* A missing reference (null / undefined ObjectId).
Null == 0

\* A string argument that is not supplied (undefined).
Undefined == <<"undefined">>

(***************************************************************************)
(* JavaScript string functions.                                            *)
(***************************************************************************)
IsSpace(c) == c = " "

LowerChar(c) ==
    CASE c = "A" -> "a"
      [] c = "B" -> "b"
      [] OTHER -> c

\* String.prototype.toLowerCase
ToLowerCase(s) == [i \in 1..Len(s) |-> LowerChar(s[i])]

RECURSIVE TrimStart(_)
TrimStart(s) ==
    IF s # <<>> /\ IsSpace(Head(s)) THEN TrimStart(Tail(s)) ELSE s

RECURSIVE TrimEnd(_)
TrimEnd(s) ==
    IF s # <<>> /\ IsSpace(s[Len(s)]) THEN TrimEnd(SubSeq(s, 1, Len(s) - 1)) ELSE s

\* String.prototype.trim
Trim(s) == TrimEnd(TrimStart(s))

\* the first whitespace-free run of s and what follows it
RECURSIVE TakeWord(_)
TakeWord(s) ==
    IF s = <<>> \/ IsSpace(Head(s)) THEN <<>> ELSE <<Head(s)>> \o TakeWord(Tail(s))

\* cleaned.split(/\s+/) on a trimmed, non-empty string: the sequence of words
RECURSIVE SplitWhitespace(_)
SplitWhitespace(s) ==
    IF s = <<>> THEN <<>>
    ELSE LET w == TakeWord(s)
             rest == TrimStart(SubSeq(s, Len(w) + 1, Len(s)))
         IN  <<w>> \o SplitWhitespace(rest)

\* parts.join(' ')
RECURSIVE JoinSpace(_)
JoinSpace(parts) ==
    IF parts = <<>> THEN <<>>
    ELSE IF Len(parts) = 1 THEN parts[1]
    ELSE parts[1] \o <<" ">> \o JoinSpace(Tail(parts))

\* a value that is falsy in JavaScript: undefined or the empty string
Falsy(s) == s = Undefined \/ s = <<>>

Lapsevanem == <<"L", "a", "p", "s", "e", "v", "a", "n", "e", "m">>

\* normalizeParentName of students.js and groups.js (the two are the same text)
normalizeParentName(name) ==
    IF Falsy(name)
    THEN [firstName |-> Lapsevanem, lastName |-> <<>>, fullName |-> Lapsevanem]
    ELSE LET cleaned == Trim(name) IN
         IF Len(cleaned) = 0
         THEN [firstName |-> Lapsevanem, lastName |-> <<>>, fullName |-> Lapsevanem]
         ELSE LET parts == SplitWhitespace(cleaned)
                  firstName == Head(parts)
                  rest == Tail(parts)
                  lastName == IF Len(rest) > 0 THEN JoinSpace(rest) ELSE <<>>
              IN  [firstName |-> IF Falsy(firstName) THEN Lapsevanem ELSE firstName,
                   lastName |-> lastName,
                   fullName |-> cleaned]

(***************************************************************************)
(* The document store.  A collection is a function from the ids of the    *)
(* documents that exist to the documents.                                  *)
(***************************************************************************)
DB == [groups |-> groups, students |-> students, parents |-> parents,
       nextStudent |-> nextStudent, nextParent |-> nextParent]

\* f with document d stored under id
Put(f, id, d) == [x \in DOMAIN f \cup {id} |-> IF x = id THEN d ELSE f[x]]

\* mutant: a deleted document stays in its collection
DropNothing(f, id) == f

\* f without the document id
Drop(f, id) == [x \in DOMAIN f \ {id} |-> f[x]]

\* the parentSchema setters on email: lowercase, trim
EmailSetter(e) == Trim(ToLowerCase(e))

\* mutant: the query compares the email as given, without the setters
ParentFindOneExact(db, email) ==
    LET hits == {p \in DOMAIN db.parents : db.parents[p].email = email}
    IN  IF hits = {} THEN Null ELSE CHOOSE p \in hits : \A q \in hits : p <= q

\* mutant: the lookup never finds a stored parent
ParentFindOneNever(db, email) == Null

\* Parent.findOne({ email }): the query value is cast through the schema setters
ParentFindOne(db, email) ==
    LET hits == {p \in DOMAIN db.parents : db.parents[p].email = EmailSetter(email)}
    IN  IF hits = {} THEN Null ELSE CHOOSE p \in hits : \A q \in hits : p <= q

\* Parent.create({ firstName, lastName, email }): the new id is db.nextParent
ParentCreate(db, firstName, lastName, email) ==
    [db EXCEPT !.parents = Put(@, db.nextParent,
                               [firstName |-> Trim(firstName),
                                lastName |-> Trim(lastName),
                                email |-> EmailSetter(email),
                                students |-> {}]),
               !.nextParent = @ + 1]

\* Student.countDocuments({ group, parent })
CountStudents(db, groupId, parentId) ==
    Cardinality({s \in DOMAIN db.students :
                    db.students[s].group = groupId /\ db.students[s].parent = parentId})

\* mutant: the $addToSet on students is left out
AddToSetStudentsSkipped(db, groupId, studentId) == db

\* mutant: the roster is written back as read before the other request's
\* update, with the one student added
AddToSetStudentsOverwrites(db, groupId, studentId) ==
    IF groupId \in DOMAIN db.groups
    THEN [db EXCEPT !.groups[groupId].students = {studentId}]
    ELSE db

\* Group.updateOne({ _id }, { $addToSet: { students } })
AddToSetStudents(db, groupId, studentId) ==
    IF groupId \in DOMAIN db.groups
    THEN [db EXCEPT !.groups[groupId].students = @ \cup {studentId}]
    ELSE db

\* Group.updateOne({ _id }, { $pull: { students } })
PullStudents(db, groupId, studentId) ==
    IF groupId \in DOMAIN db.groups
    THEN [db EXCEPT !.groups[groupId].students = @ \ {studentId}]
    ELSE db

\* Group.updateOne({ _id }, { $addToSet: { parents } })
AddToSetParents(db, groupId, parentId) ==
    IF groupId \in DOMAIN db.groups
    THEN [db EXCEPT !.groups[groupId].parents = @ \cup {parentId}]
    ELSE db

\* mutant: the $pull is conditional on the count taken in the same operation
PullParentsIfUnused(db, groupId, parentId) ==
    IF groupId \in DOMAIN db.groups /\ CountStudents(db, groupId, parentId) = 0
    THEN [db EXCEPT !.groups[groupId].parents = @ \ {parentId}]
    ELSE db

\* Group.updateOne({ _id }, { $pull: { parents } })
PullParents(db, groupId, parentId) ==
    IF groupId \in DOMAIN db.groups
    THEN [db EXCEPT !.groups[groupId].parents = @ \ {parentId}]
    ELSE db

\* mutant: the update has no filter on the group
ensureParentInEveryGroup(db, groupId, parentId) ==
    IF groupId = Null \/ parentId = Null THEN db
    ELSE [db EXCEPT !.groups = [g \in DOMAIN db.groups |->
                                    [db.groups[g] EXCEPT !.parents = @ \cup {parentId}]]]

\* students.js
ensureParentInGroup(db, groupId, parentId) ==
    IF groupId = Null \/ parentId = Null THEN db
    ELSE AddToSetParents(db, groupId, parentId)

\* mutant: the test of the count is inverted
removeParentFromGroupIfUsed(db, groupId, parentId) ==
    IF groupId = Null \/ parentId = Null THEN db
    ELSE IF CountStudents(db, groupId, parentId) # 0
         THEN PullParents(db, groupId, parentId)
         ELSE db

\* students.js
removeParentFromGroupIfUnused(db, groupId, parentId) ==
    IF groupId = Null \/ parentId = Null THEN db
    ELSE IF CountStudents(db, groupId, parentId) = 0
         THEN PullParents(db, groupId, parentId)
         ELSE db

\* a Student document: an optional group, an optional parent and the
\* parent's name as last given
StudentDoc(group, parent, parentName) ==
    [group |-> group, parent |-> parent, parentName |-> parentName]

\* a handler's result: the store it leaves and the response it sends
Reply(db, status, message) == [db |-> db, status |-> status, message |-> message]


(***************************************************************************)
(* POST /api/students                                                      *)
(***************************************************************************)
\* the name update of an already stored parent in POST /students: the last
\* name is written only when the supplied one is not empty
postStudentParentNames(parent, nameParts) ==
    LET withFirst == IF ~Falsy(nameParts.firstName) /\ parent.firstName # nameParts.firstName
                     THEN [parent EXCEPT !.firstName = nameParts.firstName]
                     ELSE parent
    IN  IF ~Falsy(nameParts.lastName) /\ parent.lastName # nameParts.lastName
        THEN [withFirst EXCEPT !.lastName = nameParts.lastName]
        ELSE withFirst

postStudent(db, role, groupId, parentName, parentEmail) ==
    IF role # "admin" THEN Reply(db, 403, "Not authorized to create students")
    ELSE IF Falsy(parentEmail) THEN Reply(db, 400, "Parent email is required")
    ELSE IF groupId \notin DOMAIN db.groups THEN Reply(db, 404, "Group not found")
    ELSE
      LET normalizedEmail == ToLowerCase(parentEmail)
          nameParts == normalizeParentName(parentName)
          found == ParentFindOne(db, normalizedEmail)
      IN
      IF found = Null /\ EmailSetter(normalizedEmail) = <<>>
      THEN Reply(db, 500, "Parent validation failed")
      ELSE
        LET parentId == IF found = Null THEN db.nextParent ELSE found
            db1 == IF found = Null
                   THEN ParentCreate(db, nameParts.firstName, nameParts.lastName,
                                     normalizedEmail)
                   ELSE [db EXCEPT !.parents[found] = postStudentParentNames(@, nameParts)]
            studentId == db1.nextStudent
            db2 == [db1 EXCEPT !.students = Put(@, studentId,
                                                StudentDoc(groupId, parentId,
                                                           nameParts.fullName)),
                               !.nextStudent = @ + 1]
            db3 == AddToSetStudents(db2, groupId, studentId)
            db4 == [db3 EXCEPT !.parents[parentId].students = @ \cup {studentId}]
            db5 == ensureParentInGroup(db4, groupId, parentId)
        IN  Reply(db5, 201, "")

(***************************************************************************)
(* PUT /api/students/:id                                                   *)
(***************************************************************************)
\* the name update of PUT /students when a parent email is supplied: the
\* last name is written whenever it differs
putStudentParentNames(parent, nameParts) ==
    LET withFirst == IF ~Falsy(nameParts.firstName) /\ parent.firstName # nameParts.firstName
                     THEN [parent EXCEPT !.firstName = nameParts.firstName]
                     ELSE parent
    IN  IF parent.lastName # nameParts.lastName
        THEN [withFirst EXCEPT !.lastName = nameParts.lastName]
        ELSE withFirst

\* the name update of PUT /students when only a parent name is supplied
putStudentNameOnly(parent, nameParts) ==
    [parent EXCEPT !.firstName = nameParts.firstName, !.lastName = nameParts.lastName]

\* what the parent part of PUT /students leaves: the store, whether a save
\* threw, and the student's parent and parentName fields in memory
ParentStep(db, thrown, parent, parentName) ==
    [db |-> db, thrown |-> thrown, parent |-> parent, parentName |-> parentName]

\* currentParent.save() of changed names; the document may be gone by now
putStudentSaveNames(db, parentId, loaded, updated, fullName) ==
    IF updated = loaded THEN ParentStep(db, FALSE, parentId, fullName)
    ELSE IF parentId \notin DOMAIN db.parents THEN ParentStep(db, TRUE, parentId, fullName)
    ELSE ParentStep([db EXCEPT !.parents[parentId].firstName = updated.firstName,
                               !.parents[parentId].lastName = updated.lastName],
                    FALSE, parentId, fullName)

\* the branch taken when the student has no parent document or its stored
\* email differs from the lowercased request email
putStudentSwitchParent(db, id, currentParentId, normalizedEmail, nameParts) ==
    LET found == ParentFindOne(db, normalizedEmail) IN
    IF found = Null /\ EmailSetter(normalizedEmail) = <<>>
    THEN ParentStep(db, TRUE, db.students[id].parent, db.students[id].parentName)
    ELSE
      LET nextParentId == IF found = Null THEN db.nextParent ELSE found
          dbA == IF found = Null
                 THEN ParentCreate(db, nameParts.firstName, nameParts.lastName,
                                   normalizedEmail)
                 ELSE db
          \* the copy of nextParent the handler holds from here on
          nextLoaded == dbA.parents[nextParentId]
          dbB == IF currentParentId = Null THEN dbA
                 ELSE IF db.parents[currentParentId].students \ {id} = {}
                      THEN [dbA EXCEPT !.parents = Drop(@, currentParentId)]
                      ELSE [dbA EXCEPT !.parents[currentParentId].students = @ \ {id}]
          needPush == id \notin nextLoaded.students
      IN
      IF needPush /\ nextParentId \notin DOMAIN dbB.parents
      THEN ParentStep(dbB, TRUE, db.students[id].parent, db.students[id].parentName)
      ELSE
        LET dbC == IF needPush
                   THEN [dbB EXCEPT !.parents[nextParentId].students = @ \cup {id}]
                   ELSE dbB
        IN  putStudentSaveNames(dbC, nextParentId, nextLoaded,
                                putStudentParentNames(nextLoaded, nameParts),
                                nameParts.fullName)

putStudentParent(db, id, parentName, parentEmail) ==
    LET student == db.students[id]
        currentParentId == IF student.parent # Null /\ student.parent \in DOMAIN db.parents
                           THEN student.parent
                           ELSE Null
    IN
    IF ~Falsy(parentEmail)
    THEN LET normalizedEmail == ToLowerCase(parentEmail)
             nameParts == normalizeParentName(IF Falsy(parentName)
                                              THEN student.parentName
                                              ELSE parentName)
         IN  IF currentParentId = Null \/ db.parents[currentParentId].email # normalizedEmail
             THEN putStudentSwitchParent(db, id, currentParentId, normalizedEmail, nameParts)
             ELSE putStudentSaveNames(db, currentParentId, db.parents[currentParentId],
                                      putStudentParentNames(db.parents[currentParentId],
                                                            nameParts),
                                      nameParts.fullName)
    ELSE IF ~Falsy(parentName) /\ currentParentId # Null
    THEN LET nameParts == normalizeParentName(parentName)
         IN  putStudentSaveNames(db, currentParentId, db.parents[currentParentId],
                                 putStudentNameOnly(db.parents[currentParentId], nameParts),
                                 nameParts.fullName)
    ELSE ParentStep(db, FALSE, student.parent, student.parentName)

\* student.save() and the group clean-up that follows it
putStudentFinish(db, id, group, parent, parentName, originalGroupId, originalParentId) ==
    LET db1 == [db EXCEPT !.students[id] = StudentDoc(group, parent, parentName)]
        db2 == IF parent # Null THEN ensureParentInGroup(db1, group, parent) ELSE db1
        db3 == IF originalGroupId # Null /\ (group = Null \/ group # originalGroupId)
               THEN removeParentFromGroupIfUnused(db2, originalGroupId, originalParentId)
               ELSE db2
        targetGroupId == IF group # Null THEN group ELSE originalGroupId
    IN  IF originalParentId # Null /\ (parent = Null \/ parent # originalParentId)
           /\ targetGroupId # Null
        THEN removeParentFromGroupIfUnused(db3, targetGroupId, originalParentId)
        ELSE db3

putStudent(db, role, id, groupId, parentName, parentEmail) ==
    IF role # "admin" THEN Reply(db, 403, "Not authorized to update students")
    ELSE IF id \notin DOMAIN db.students THEN Reply(db, 404, "Student not found")
    ELSE
      LET student == db.students[id]
          originalGroupId == student.group
          originalParentId == student.parent
          moves == groupId # Null /\ (originalGroupId = Null \/ groupId # originalGroupId)
      IN
      IF moves /\ groupId \notin DOMAIN db.groups THEN Reply(db, 404, "Group not found")
      ELSE
        LET db1 == IF moves
                   THEN AddToSetStudents(IF originalGroupId # Null
                                         THEN PullStudents(db, originalGroupId, id)
                                         ELSE db,
                                         groupId, id)
                   ELSE db
            group == IF moves THEN groupId ELSE originalGroupId
            step == putStudentParent(db1, id, parentName, parentEmail)
        IN  IF step.thrown THEN Reply(step.db, 500, "Server error")
            ELSE Reply(putStudentFinish(step.db, id, group, step.parent, step.parentName,
                                        originalGroupId, originalParentId),
                       200, "")

(***************************************************************************)
(* DELETE /api/students/:id                                                *)
(***************************************************************************)
deleteStudent(db, role, id) ==
    IF role # "admin" THEN Reply(db, 403, "Not authorized to delete students")
    ELSE IF id \notin DOMAIN db.students THEN Reply(db, 404, "Student not found")
    ELSE
      LET student == db.students[id]
          db1 == PullStudents(db, student.group, id)
          db2 == IF student.parent # Null /\ student.parent \in DOMAIN db1.parents
                 THEN IF db1.parents[student.parent].students \ {id} = {}
                      THEN [db1 EXCEPT !.parents = Drop(@, student.parent)]
                      ELSE [db1 EXCEPT !.parents[student.parent].students = @ \ {id}]
                 ELSE db1
          db3 == IF student.parent # Null
                 THEN removeParentFromGroupIfUnused(db2, student.group, student.parent)
                 ELSE db2
      IN  Reply([db3 EXCEPT !.students = Drop(@, id)], 200, "Student deleted successfully")


(***************************************************************************)
(* PATCH /api/groups/:id/full                                              *)
(***************************************************************************)
\* groups.js
groupsEnsureParentInGroup(db, groupId, parentId) ==
    IF parentId = Null THEN db
    ELSE AddToSetParents(db, groupId, parentId)

\* groups.js
groupsRemoveParentFromGroupIfUnused(db, groupId, parentId) ==
    IF groupId = Null \/ parentId = Null THEN db
    ELSE IF CountStudents(db, groupId, parentId) = 0
         THEN PullParents(db, groupId, parentId)
         ELSE db

\* the elements of a set of ids, in ascending order
RECURSIVE SetToSeq(_)
SetToSeq(S) ==
    IF S = {} THEN <<>>
    ELSE LET m == CHOOSE x \in S : \A y \in S : x <= y
         IN  <<m>> \o SetToSeq(S \ {m})

\* the elements of a sequence
Range(s) == {s[i] : i \in 1..Len(s)}

\* [...new Set(studentIds.filter(Boolean))]: first occurrences, in order
RECURSIVE Dedupe(_)
Dedupe(ids) ==
    IF ids = <<>> THEN <<>>
    ELSE LET init == Dedupe(SubSeq(ids, 1, Len(ids) - 1))
             last == ids[Len(ids)]
         IN  IF last = Null \/ last \in Range(init) THEN init ELSE Append(init, last)

\* "Remove students that are no longer in the group"
RECURSIVE patchRemoveLoop(_, _, _)
patchRemoveLoop(db, groupId, toRemove) ==
    IF toRemove = <<>> THEN db
    ELSE
      LET studentId == Head(toRemove) IN
      IF studentId \notin DOMAIN db.students
      THEN patchRemoveLoop(db, groupId, Tail(toRemove))
      ELSE
        LET parentId == db.students[studentId].parent
            db1 == [db EXCEPT !.students[studentId].group = Null]
            db2 == PullStudents(db1, groupId, studentId)
            db3 == groupsRemoveParentFromGroupIfUnused(db2, groupId, parentId)
        IN  patchRemoveLoop(db3, groupId, Tail(toRemove))

\* one round of "Assign requested students to the group"
patchAssignOne(db, groupId, studentId) ==
    LET student == db.students[studentId]
        previousGroupId == student.group
        db1 == IF previousGroupId = Null \/ previousGroupId # groupId
               THEN LET dbP == IF previousGroupId # Null
                               THEN groupsRemoveParentFromGroupIfUnused(
                                        PullStudents(db, previousGroupId, studentId),
                                        previousGroupId, student.parent)
                               ELSE db
                    IN  [dbP EXCEPT !.students[studentId].group = groupId]
               ELSE db
        db2 == AddToSetStudents(db1, groupId, studentId)
    IN  IF student.parent # Null
        THEN groupsEnsureParentInGroup(db2, groupId, student.parent)
        ELSE db2

RECURSIVE patchAssignLoop(_, _, _)
patchAssignLoop(db, groupId, toAssign) ==
    IF toAssign = <<>> THEN db
    ELSE IF Head(toAssign) \notin DOMAIN db.students
         THEN patchAssignLoop(db, groupId, Tail(toAssign))
         ELSE patchAssignLoop(patchAssignOne(db, groupId, Head(toAssign)),
                              groupId, Tail(toAssign))

\* mutant: the students of an emptied roster keep their group
patchDetachAllLoopKeepsGroup(db, groupId, currentStudentIds) == db

\* "No students requested - detach all"
RECURSIVE patchDetachAllLoop(_, _, _)
patchDetachAllLoop(db, groupId, currentStudentIds) ==
    IF currentStudentIds = <<>> THEN db
    ELSE
      LET studentId == Head(currentStudentIds) IN
      IF studentId \notin DOMAIN db.students
      THEN patchDetachAllLoop(db, groupId, Tail(currentStudentIds))
      ELSE
        LET parentId == db.students[studentId].parent
            db1 == [db EXCEPT !.students[studentId].group = Null]
            db2 == groupsRemoveParentFromGroupIfUnused(db1, groupId, parentId)
        IN  patchDetachAllLoop(db2, groupId, Tail(currentStudentIds))

\* the roster step: the store after the student loops
patchRoster(db, groupId, requestedStudentIds) ==
    LET currentStudentIds == SetToSeq(db.groups[groupId].students) IN
    IF Len(requestedStudentIds) > 0
    THEN LET toRemove == SelectSeq(currentStudentIds,
                                   LAMBDA id : id \notin Range(requestedStudentIds))
         IN  patchAssignLoop(patchRemoveLoop(db, groupId, toRemove),
                             groupId, requestedStudentIds)
    ELSE patchDetachAllLoop(db, groupId, currentStudentIds)

\* mutant: the parents of the group's students are not collected
patchStudentParentIdsNone(db, groupId) == {}

\* Student.find({ group }).distinct('parent') without the empty values
patchStudentParentIds(db, groupId) ==
    {db.students[s].parent : s \in {x \in DOMAIN db.students : db.students[x].group = groupId}}
        \ {Null}

\* parentItem?.email?.toLowerCase().trim()
patchItemEmail(parentItem) ==
    IF parentItem.email = Undefined THEN Undefined ELSE Trim(ToLowerCase(parentItem.email))

\* the name update of an already stored parent in PATCH /groups/:id/full
patchParentNames(parent, nameParts) ==
    LET withFirst == IF ~Falsy(nameParts.firstName) /\ parent.firstName # nameParts.firstName
                     THEN [parent EXCEPT !.firstName = nameParts.firstName]
                     ELSE parent
    IN  IF parent.lastName # nameParts.lastName
        THEN [withFirst EXCEPT !.lastName = nameParts.lastName]
        ELSE withFirst

\* the loop over the parents payload: the store, the ids collected and
\* whether an entry without email stopped it
RECURSIVE patchParentsLoop(_, _, _)
patchParentsLoop(db, parentPayload, parentIdsSet) ==
    IF parentPayload = <<>>
    THEN [db |-> db, parentIdsSet |-> parentIdsSet, failed |-> FALSE]
    ELSE
      LET parentItem == Head(parentPayload)
          email == patchItemEmail(parentItem)
      IN
      IF Falsy(email)
      THEN [db |-> db, parentIdsSet |-> parentIdsSet, failed |-> TRUE]
      ELSE
        LET nameParts == normalizeParentName(parentItem.name)
            found == ParentFindOne(db, email)
            parentId == IF found = Null THEN db.nextParent ELSE found
            db1 == IF found = Null
                   THEN ParentCreate(db, nameParts.firstName, nameParts.lastName, email)
                   ELSE [db EXCEPT !.parents[found] = patchParentNames(@, nameParts)]
        IN  patchParentsLoop(db1, Tail(parentPayload), parentIdsSet \cup {parentId})

\* "Clean up removed parents if they are no longer referenced"
RECURSIVE patchCleanupLoop(_, _, _)
patchCleanupLoop(db, groupId, removedParentIds) ==
    IF removedParentIds = <<>> THEN db
    ELSE
      LET parentId == Head(removedParentIds)
          db1 == groupsRemoveParentFromGroupIfUnused(db, groupId, parentId)
          stillReferenced ==
              \/ \E s \in DOMAIN db1.students : db1.students[s].parent = parentId
              \/ \E g \in DOMAIN db1.groups : parentId \in db1.groups[g].parents
          db2 == IF stillReferenced THEN db1
                 ELSE [db1 EXCEPT !.parents = Drop(@, parentId)]
      IN  patchCleanupLoop(db2, groupId, Tail(removedParentIds))

\* the group document held in memory with the body's name, location and
\* description applied
patchGroupFields(group, body) ==
    [group EXCEPT !.name = IF body.name = Undefined THEN @ ELSE Trim(body.name),
                  !.location = IF body.location = Undefined THEN @ ELSE Trim(body.location),
                  !.description = IF body.description = Undefined THEN @
                                  ELSE body.description]

\* mutant: the save does not write the students path
patchGroupSaveWithoutStudents(db, groupId, group) ==
    [db EXCEPT !.groups[groupId] = [name |-> Trim(group.name),
                                    location |-> Trim(group.location),
                                    description |-> Trim(group.description),
                                    students |-> @.students,
                                    parents |-> group.parents]]

\* group.save(): the changed paths, through the schema's trim setters; the
\* required name and location may not be empty
patchGroupSave(db, groupId, group) ==
    [db EXCEPT !.groups[groupId] = [name |-> Trim(group.name),
                                    location |-> Trim(group.location),
                                    description |-> Trim(group.description),
                                    students |-> group.students,
                                    parents |-> group.parents]]

\* mutant: the validation of the requested ids is left out
patchStudentsMissingNever(db, requestedStudentIds) == FALSE

\* "Validate students": some requested id has no Student document
patchStudentsMissing(db, requestedStudentIds) ==
    Len(requestedStudentIds) > 0
    /\ Cardinality({s \in DOMAIN db.students : s \in Range(requestedStudentIds)})
           # Len(requestedStudentIds)

\* the roles of a user
Roles == {"admin", "teacher", "student", "parent"}

\* mutant: every caller may update groups
patchNotAuthorizedNever(role) == FALSE

\* the role guard of the bulk replace
patchNotAuthorized(role) == role # "admin"

\* Group.findById found nothing
patchGroupNotFound(db, groupId) == groupId \notin DOMAIN db.groups

patchGroupFull(db, role, groupId, body) ==
    IF patchNotAuthorized(role) THEN Reply(db, 403, "Not authorized to update groups")
    ELSE IF patchGroupNotFound(db, groupId) THEN Reply(db, 404, "Group not found")
    ELSE
      LET group == patchGroupFields(db.groups[groupId], body)
          requestedStudentIds == Dedupe(body.studentIds)
      IN
      IF patchStudentsMissing(db, requestedStudentIds)
      THEN Reply(db, 400, "One or more students were not found")
      ELSE
        LET db1 == patchRoster(db, groupId, requestedStudentIds)
            studentParentIds == patchStudentParentIds(db1, groupId)
            loop == patchParentsLoop(db1, body.parents, studentParentIds)
        IN
        IF loop.failed
        THEN Reply(loop.db, 400, "Parent email is required for each parent entry")
        ELSE IF Trim(group.name) = <<>> \/ Trim(group.location) = <<>>
        THEN Reply(loop.db, 500, "Group validation failed")
        ELSE
          LET previousParentIds == group.parents
              removedParentIds == previousParentIds \ loop.parentIdsSet
              saved == patchGroupSave(loop.db, groupId,
                                      [group EXCEPT !.students = Range(requestedStudentIds),
                                                    !.parents = loop.parentIdsSet])
          IN  Reply(patchCleanupLoop(saved, groupId, SetToSeq(removedParentIds)), 200, "")

\* the store operations of the bulk replace after which the next one can
\* fail: the roster loops, the parents payload loop, group.save()
Stages == {"roster", "parents", "save"}

\* the bulk replace when the store operation that follows a stage throws:
\* the writes up to there stay, the catch block answers 500
patchGroupFullStopped(db, groupId, body, stage) ==
    LET group == patchGroupFields(db.groups[groupId], body)
        requestedStudentIds == Dedupe(body.studentIds)
        db1 == patchRoster(db, groupId, requestedStudentIds)
        loop == patchParentsLoop(db1, body.parents, patchStudentParentIds(db1, groupId))
        saved == patchGroupSave(loop.db, groupId,
                                [group EXCEPT !.students = Range(requestedStudentIds),
                                              !.parents = loop.parentIdsSet])
    IN  CASE stage = "roster" -> Reply(db1, 500, "store error")
          [] stage = "parents" -> Reply(loop.db, 500, "store error")
          [] stage = "save" -> Reply(saved, 500, "store error")

(***************************************************************************)
(* DELETE /api/groups/:id                                                  *)
(***************************************************************************)
\* mutant: the students of the deleted group are kept
deleteGroupKeepsStudents(db, role, groupId) ==
    IF role # "admin" THEN Reply(db, 403, "Not authorized to delete groups")
    ELSE IF groupId \notin DOMAIN db.groups THEN Reply(db, 404, "Group not found")
    ELSE Reply([db EXCEPT !.groups = Drop(@, groupId)], 200, "Group deleted successfully")

deleteGroup(db, role, groupId) ==
    IF role # "admin" THEN Reply(db, 403, "Not authorized to delete groups")
    ELSE IF groupId \notin DOMAIN db.groups THEN Reply(db, 404, "Group not found")
    ELSE
      LET kept == {s \in DOMAIN db.students : db.students[s].group # groupId}
          db1 == [db EXCEPT !.students = [s \in kept |-> db.students[s]]]
      IN  Reply([db1 EXCEPT !.groups = Drop(@, groupId)], 200, "Group deleted successfully")


(***************************************************************************)
(* Requests.  A set of inputs says which roles, parent names, parent       *)
(* emails and group fields the requests of a specification carry, and      *)
(* whether the response is part of the observed state.                     *)
(***************************************************************************)
EmailA == <<"a">>
EmailAPadded == <<" ", "A">>
EmailB == <<"b">>
NameXY == <<" ", "x", " ", " ", "y">>
NameZ == <<"z">>

NoFields == [name |-> Undefined, location |-> Undefined, description |-> Undefined]
NewFields == [name |-> <<" ", "n">>, location |-> <<"m", " ">>, description |-> <<"d">>]

\* sequences over S of length at most n
SeqsUpTo(S, n) == UNION {[1..k -> S] : k \in 0..n}

\* the studentIds of a PATCH body: known and unknown ids, repeated or not
RosterInputs == SeqsUpTo(1..(MaxStudents + 1), MaxStudents)

\* the parents of a PATCH body
PayloadInputs(I) ==
    SeqsUpTo([email : I.payloadEmails \cup {Undefined}, name : I.names \cup {Undefined}],
             MaxPayload)

BodyInputs(I) ==
    {[name |-> f.name, location |-> f.location, description |-> f.description,
      studentIds |-> ids, parents |-> ps] :
        f \in I.fields, ids \in RosterInputs, ps \in PayloadInputs(I)}

\* the requests that can be in progress at once
Slots == 1..MaxRequests

\* the schedules the seed data creates
ScheduleIds == 1..MaxSchedules

\* no bulk schedule generation is in progress
NoBulk ==
    [pc |-> "idle", currentDate |-> 0, end |-> 0, dayOfWeek |-> 0, created |-> 0,
     status |-> 0]

\* a request in progress: the handler, the store operation it is at, and
\* what it holds in memory; partners counts the requests it has overlapped
Idle ==
    [op |-> "", pc |-> "done", student |-> Null, group |-> Null, parent |-> Null,
     originalGroup |-> Null, email |-> <<>>, pulled |-> FALSE, partners |-> 0]

\* the store and the response after a handler has run; ids are handed out
\* up to the bounds
Respond(observe, op, r) ==
    /\ r.db.nextStudent <= MaxStudents + 1
    /\ r.db.nextParent <= MaxParents + 1
    /\ groups' = r.db.groups
    /\ students' = r.db.students
    /\ parents' = r.db.parents
    /\ nextStudent' = r.db.nextStudent
    /\ nextParent' = r.db.nextParent
    /\ response' = IF observe THEN [op |-> op, status |-> r.status, message |-> r.message]
                   ELSE response
    /\ requests' = requests
    /\ UNCHANGED <<updates, schedules, attendance, bulk>>

PostStudentReq(observe, role, groupId, parentName, parentEmail) ==
    Respond(observe, "POST /students",
            postStudent(DB, role, groupId, parentName, parentEmail))

PutStudentReq(observe, role, id, groupId, parentName, parentEmail) ==
    Respond(observe, "PUT /students/:id",
            putStudent(DB, role, id, groupId, parentName, parentEmail))

DeleteStudentReq(observe, role, id) ==
    Respond(observe, "DELETE /students/:id", deleteStudent(DB, role, id))

PatchGroupFullReq(observe, role, groupId, body) ==
    Respond(observe, "PATCH /groups/:id/full", patchGroupFull(DB, role, groupId, body))

DeleteGroupReq(observe, role, groupId) ==
    Respond(observe, "DELETE /groups/:id", deleteGroup(DB, role, groupId))

PostStudent(I) ==
    \E role \in I.roles, groupId \in GroupIds,
       parentName \in I.names \cup {Undefined},
       parentEmail \in I.emails \cup {Undefined} :
        PostStudentReq(I.observe, role, groupId, parentName, parentEmail)

PutStudent(I) ==
    \E role \in I.roles, id \in StudentIds, groupId \in GroupIds \cup {Null},
       parentName \in I.names \cup {Undefined},
       parentEmail \in I.emails \cup {Undefined} :
        PutStudentReq(I.observe, role, id, groupId, parentName, parentEmail)

DeleteStudent(I) ==
    \E role \in I.roles, id \in StudentIds : DeleteStudentReq(I.observe, role, id)

PatchGroupFull(I) ==
    \E role \in I.roles, groupId \in GroupIds, body \in BodyInputs(I) :
        PatchGroupFullReq(I.observe, role, groupId, body)

DeleteGroup(I) ==
    \E role \in I.roles, groupId \in GroupIds : DeleteGroupReq(I.observe, role, groupId)

\* the groups exist from the start; students and parents come from requests
Init ==
    /\ groups = [g \in GroupIds |-> [name |-> <<"g">>, location |-> <<"l">>,
                                     description |-> <<>>,
                                     students |-> {}, parents |-> {}]]
    /\ students = <<>>
    /\ parents = <<>>
    /\ nextStudent = 1
    /\ nextParent = 1
    /\ response = [op |-> "", status |-> 0, message |-> ""]
    /\ requests = [k \in Slots |-> Idle]
    /\ updates = <<>>
    /\ schedules = ScheduleIds
    /\ attendance = <<>>
    /\ bulk = NoBulk

NextOf(I) ==
    \/ PostStudent(I)
    \/ PutStudent(I)
    \/ DeleteStudent(I)
    \/ PatchGroupFull(I)
    \/ DeleteGroup(I)

\* the store under the requests of an administrator
StoreInputs ==
    [roles |-> {"admin"}, names |-> {}, emails |-> {EmailA, EmailAPadded, EmailB},
     payloadEmails |-> {EmailA, EmailB}, fields |-> {NoFields}, observe |-> FALSE]

Next == NextOf(StoreInputs)

Spec == Init /\ [][Next]_vars

(***************************************************************************)
(* DELETE /api/admin/parents/:id                                           *)
(***************************************************************************)
deleteParent(db, id) ==
    IF id \notin DOMAIN db.parents THEN Reply(db, 404, "Parent not found")
    ELSE IF db.parents[id].students # {}
    THEN Reply(db, 400, "Cannot delete parent with associated students")
    ELSE Reply([db EXCEPT !.parents = Drop(@, id)], 200, "Parent deleted successfully")

DeleteParent ==
    \E id \in ParentIds :
        Respond(FALSE, "DELETE /admin/parents/:id", deleteParent(DB, id))

\* the requests of an administrator on students, rosters and parents
NextAdmin ==
    \/ PostStudent(StoreInputs)
    \/ PutStudent(StoreInputs)
    \/ DeleteStudent(StoreInputs)
    \/ PatchGroupFull(StoreInputs)
    \/ DeleteParent

SpecAdmin == Init /\ [][NextAdmin]_vars

(***************************************************************************)
(* Concurrent requests.  POST /students and PUT /students/:id with a new   *)
(* groupId run one store operation at a time, in up to MaxRequests         *)
(* requests at once; what a handler has read stays as it was read.         *)
(***************************************************************************)
Running(k) == requests[k].pc # "done"

\* the store after one store operation; the response is not observed
Store(db) ==
    /\ groups' = db.groups
    /\ students' = db.students
    /\ parents' = db.parents
    /\ nextStudent' = db.nextStudent
    /\ nextParent' = db.nextParent
    /\ response' = response
    /\ UNCHANGED <<updates, schedules, attendance, bulk>>

\* request k goes on to store operation pc
Goto(k, pc) == requests' = [requests EXCEPT ![k].pc = pc]

\* request req arrives in the free slot k; it and the running requests
\* count each other as partners, and the completed requests are forgotten
Begin(k, req) ==
    /\ ~ Running(k)
    /\ requests' =
           [j \in Slots |->
               IF j = k
               THEN [req EXCEPT !.partners = Cardinality({i \in Slots \ {k} : Running(i)})]
               ELSE IF Running(j)
                    THEN [requests[j] EXCEPT !.partners = IF @ < MaxRequests THEN @ + 1 ELSE @]
                    ELSE Idle]

\* the POST requests in progress that have yet to create their student,
\* and those that have yet to create their parent
StudentsToCome == {k \in Slots : requests[k].op = "POST" /\ requests[k].pc \in {"create", "student"}}
ParentsToCome == {k \in Slots : requests[k].op = "POST" /\ requests[k].pc = "create"
                                /\ requests[k].parent = Null}

\* POST /students {groupId, parentEmail}: Parent.findOne
PostFindParent(k, groupId, parentEmail) ==
    LET found == ParentFindOne(DB, ToLowerCase(parentEmail)) IN
    /\ groupId \in DOMAIN groups
    /\ nextStudent + Cardinality(StudentsToCome) <= MaxStudents
    /\ found = Null => nextParent + Cardinality(ParentsToCome) <= MaxParents
    /\ Begin(k, [Idle EXCEPT !.op = "POST", !.pc = "create", !.group = groupId,
                             !.parent = found, !.email = ToLowerCase(parentEmail)])
    /\ Store(DB)

\* Parent.create when none was found, else the name update of the one found
PostCreateParent(k) ==
    LET r == requests[k]
        nameParts == normalizeParentName(Undefined)
    IN  /\ r.op = "POST" /\ r.pc = "create"
        /\ IF r.parent = Null
           THEN /\ Store(ParentCreate(DB, nameParts.firstName, nameParts.lastName, r.email))
                /\ requests' = [requests EXCEPT ![k].parent = nextParent, ![k].pc = "student"]
           ELSE /\ r.parent \in DOMAIN parents
                /\ Store([DB EXCEPT !.parents[r.parent] = postStudentParentNames(@, nameParts)])
                /\ Goto(k, "student")

\* Student.create
PostCreateStudent(k) ==
    LET r == requests[k] IN
    /\ r.op = "POST" /\ r.pc = "student"
    /\ Store([DB EXCEPT !.students = Put(@, nextStudent,
                                         StudentDoc(r.group, r.parent,
                                                    normalizeParentName(Undefined).fullName)),
                        !.nextStudent = @ + 1])
    /\ requests' = [requests EXCEPT ![k].student = nextStudent, ![k].pc = "roster"]

\* $addToSet of the student on the group's students
PostAddToRoster(k) ==
    LET r == requests[k] IN
    /\ r.op = "POST" /\ r.pc = "roster"
    /\ Store(AddToSetStudents(DB, r.group, r.student))
    /\ Goto(k, "push")

\* parent.students.push and parent.save()
PostPushParent(k) ==
    LET r == requests[k] IN
    /\ r.op = "POST" /\ r.pc = "push"
    /\ r.parent \in DOMAIN parents
    /\ Store([DB EXCEPT !.parents[r.parent].students = @ \cup {r.student}])
    /\ Goto(k, "ensure")

\* ensureParentInGroup, then the response
PostEnsureParent(k) ==
    LET r == requests[k] IN
    /\ r.op = "POST" /\ r.pc = "ensure"
    /\ Store(ensureParentInGroup(DB, r.group, r.parent))
    /\ Goto(k, "done")

\* PUT /students/:id {groupId} with a group other than the student's:
\* Student.findById and Group.findById
PutFindStudent(k, id, groupId) ==
    /\ id \in DOMAIN students
    /\ groupId \in DOMAIN groups
    /\ groupId # students[id].group
    /\ Begin(k, [Idle EXCEPT !.op = "PUT",
                             !.pc = IF students[id].group = Null THEN "add" ELSE "pull",
                             !.student = id, !.group = groupId,
                             !.parent = students[id].parent,
                             !.originalGroup = students[id].group])
    /\ Store(DB)

\* $pull of the student from the original group's students
PutPullFromRoster(k) ==
    LET r == requests[k] IN
    /\ r.op = "PUT" /\ r.pc = "pull"
    /\ Store(PullStudents(DB, r.originalGroup, r.student))
    /\ Goto(k, "add")

\* $addToSet of the student on the new group's students
PutAddToRoster(k) ==
    LET r == requests[k] IN
    /\ r.op = "PUT" /\ r.pc = "add"
    /\ Store(AddToSetStudents(DB, r.group, r.student))
    /\ Goto(k, "save")

\* student.save() of the changed group
PutSaveStudent(k) ==
    LET r == requests[k] IN
    /\ r.op = "PUT" /\ r.pc = "save"
    /\ r.student \in DOMAIN students
    /\ Store([DB EXCEPT !.students[r.student].group = r.group])
    /\ Goto(k, "ensure")

\* ensureParentInGroup on the new group
PutEnsureParent(k) ==
    LET r == requests[k] IN
    /\ r.op = "PUT" /\ r.pc = "ensure"
    /\ Store(ensureParentInGroup(DB, r.group, r.parent))
    /\ Goto(k, IF r.originalGroup = Null \/ r.parent = Null THEN "done" ELSE "count")

\* removeParentFromGroupIfUnused on the original group: the count
PutCountStudents(k) ==
    LET r == requests[k] IN
    /\ r.op = "PUT" /\ r.pc = "count"
    /\ Store(DB)
    /\ Goto(k, IF CountStudents(DB, r.originalGroup, r.parent) = 0 THEN "cleanup" ELSE "done")

\* removeParentFromGroupIfUnused on the original group: the $pull that
\* follows a count of zero
PutPullParent(k) ==
    LET r == requests[k] IN
    /\ r.op = "PUT" /\ r.pc = "cleanup"
    /\ Store(PullParents(DB, r.originalGroup, r.parent))
    /\ requests' = [requests EXCEPT ![k].pc = "done", ![k].pulled = TRUE]

\* the emails of the concurrent requests
ConcurrentEmails == {EmailA, EmailB}

PostStep(k) ==
    \/ \E groupId \in GroupIds, parentEmail \in ConcurrentEmails :
           PostFindParent(k, groupId, parentEmail)
    \/ PostCreateParent(k)
    \/ PostCreateStudent(k)
    \/ PostAddToRoster(k)
    \/ PostPushParent(k)
    \/ PostEnsureParent(k)

PutStep(k) ==
    \/ \E id \in StudentIds, groupId \in GroupIds : PutFindStudent(k, id, groupId)
    \/ PutPullFromRoster(k)
    \/ PutAddToRoster(k)
    \/ PutSaveStudent(k)
    \/ PutEnsureParent(k)
    \/ PutCountStudents(k)
    \/ PutPullParent(k)

NextConcurrent == \E k \in Slots : PostStep(k) \/ PutStep(k)

SpecConcurrent == Init /\ [][NextConcurrent]_vars

(***************************************************************************)
(* POST /api/updates                                                       *)
(***************************************************************************)
\* a caller as the authentication middleware supplies it: the role and,
\* for teachers, the groups it may access
Callers == [role : Roles, assignedGroups : SUBSET GroupIds]

\* an Update document
UpdateDoc(group, author, content) == [group |-> group, author |-> author, content |-> content]

\* what the notification service does with an update: the mail is sent, the
\* transport throws, or no transport is configured
MailOutcomes == {"sent", "failed", "disabled"}

\* sendUpdateNotification: TRUE when it throws
sendUpdateNotification(mail) == mail = "failed"

\* mutant: the error of the notification reaches the handler's catch block
postUpdateNotifyThrows(mail) == sendUpdateNotification(mail)

\* the try block around the notification: TRUE when an error leaves it
postUpdateNotify(mail) == FALSE

\* the handler on the stored updates ups
postUpdate(db, ups, caller, group, content, mail) ==
    IF group \notin DOMAIN db.groups
    THEN [updates |-> ups, status |-> 404, data |-> Null]
    ELSE IF caller.role = "teacher" /\ group \notin caller.assignedGroups
    THEN [updates |-> ups, status |-> 403, data |-> Null]
    ELSE
      LET created == Append(ups, UpdateDoc(group, caller, content)) IN
      IF postUpdateNotify(mail)
      THEN [updates |-> created, status |-> 500, data |-> Null]
      ELSE [updates |-> created, status |-> 201, data |-> Len(created)]

\* the contents of the updates
Contents == {"c", "d"}

PostUpdate ==
    \E caller \in Callers, group \in GroupIds, content \in Contents, mail \in MailOutcomes :
        /\ Len(updates) < MaxUpdates
        /\ updates' = postUpdate(DB, updates, caller, group, content, mail).updates
        /\ UNCHANGED <<groups, students, parents, nextStudent, nextParent, response,
                       requests, schedules, attendance, bulk>>

NextUpdates == PostUpdate \/ DeleteGroup(StoreInputs)

SpecUpdates == Init /\ [][NextUpdates]_vars

(***************************************************************************)
(* GET /api/students                                                       *)
(***************************************************************************)
\* the search parameter: absent, or a text, which stands here for the set
\* of students whose first or last name it matches
Searches == {[given |-> FALSE, matches |-> {}]}
                \cup {[given |-> TRUE, matches |-> m] : m \in SUBSET StudentIds}

\* query.group: the groups a returned student may have, the students
\* without group included when there is no condition
getStudentsQueryGroup(caller, queryGroup) ==
    IF queryGroup # Null THEN {queryGroup}
    ELSE IF caller.role = "teacher" THEN caller.assignedGroups
    ELSE GroupIds \cup {Null}

\* the ids of the students the handler returns
getStudents(db, caller, queryGroup, search) ==
    {s \in DOMAIN db.students :
        /\ db.students[s].group \in getStudentsQueryGroup(caller, queryGroup)
        /\ search.given => s \in search.matches}

(***************************************************************************)
(* POST /api/schedules/:id/attendance and DELETE /api/schedules/:id        *)
(***************************************************************************)
\* the users that mark attendance
Markers == {"u1", "u2"}

\* the notes of a mark
NoteTexts == {<<"x">>, <<" ", "y">>}

\* an Attendance document
AttendanceDoc(schedule, student, present, notes, markedBy) ==
    [schedule |-> schedule, student |-> student, present |-> present,
     notes |-> notes, markedBy |-> markedBy]

\* the trim setter of the notes; notes that are not given stay so
NotesSetter(notes) == IF notes = Undefined THEN Undefined ELSE Trim(notes)

\* mutant: the filter of the upsert matches no document
attendanceFindOneNever(att, schedule, student) == 0

\* the position of the document the filter {schedule, student} matches,
\* 0 when there is none
attendanceFindOne(att, schedule, student) ==
    LET found == {i \in 1..Len(att) :
                    att[i].schedule = schedule /\ att[i].student = student} IN
    IF found = {} THEN 0 ELSE CHOOSE i \in found : \A j \in found : i <= j

\* the handler on the attendance documents att and the schedules scheds;
\* strips tells whether the update drops a key whose value is undefined or
\* unsets the field
markAttendance(att, scheds, id, studentId, present, notes, markedBy, strips) ==
    IF id \notin scheds THEN [attendance |-> att, status |-> 404]
    ELSE
      LET i == attendanceFindOne(att, id, studentId) IN
      IF i = 0
      THEN [attendance |-> Append(att, AttendanceDoc(id, studentId, present,
                                                     NotesSetter(notes), markedBy)),
            status |-> 200]
      ELSE [attendance |->
                [att EXCEPT ![i] =
                    [@ EXCEPT !.present = present,
                              !.notes = IF notes = Undefined /\ strips THEN @
                                        ELSE NotesSetter(notes),
                              !.markedBy = markedBy]],
            status |-> 200]

\* the handler of DELETE /schedules/:id
deleteSchedule(att, scheds, id) ==
    IF id \notin scheds THEN [attendance |-> att, schedules |-> scheds, status |-> 404]
    ELSE [attendance |-> SelectSeq(att, LAMBDA a : a.schedule # id),
          schedules |-> scheds \ {id}, status |-> 200]

MarkAttendance ==
    \E id \in ScheduleIds, studentId \in StudentIds, present \in BOOLEAN,
       notes \in NoteTexts \cup {Undefined}, markedBy \in Markers, strips \in BOOLEAN :
        LET r == markAttendance(attendance, schedules, id, studentId, present, notes,
                                markedBy, strips) IN
        /\ Len(r.attendance) <= MaxMarks
        /\ attendance' = r.attendance
        /\ UNCHANGED <<groups, students, parents, nextStudent, nextParent, response,
                       requests, updates, schedules, bulk>>

DeleteSchedule ==
    \E id \in ScheduleIds :
        LET r == deleteSchedule(attendance, schedules, id) IN
        /\ attendance' = r.attendance
        /\ schedules' = r.schedules
        /\ UNCHANGED <<groups, students, parents, nextStudent, nextParent, response,
                       requests, updates, bulk>>

NextAttendance == MarkAttendance \/ DeleteSchedule

SpecAttendance == Init /\ [][NextAttendance]_vars

(***************************************************************************)
(* POST /api/schedules/generate-bulk.  Dates are day numbers; day 0 is a   *)
(* Sunday and MaxDay is the last day a Date can hold.  The two loops of    *)
(* the handler run one iteration a step.                                   *)
(***************************************************************************)
\* the number that is not a number
NaN == 0 - 1

\* the Date that holds no time
InvalidDate == 0 - 1

\* the start dates of a request: a day from which every day of the week is
\* found before the last day, or no readable date
StartDates == (0..(MaxDay - 7)) \cup {InvalidDate}

\* the end dates of a request
EndDates == (0..MaxDay) \cup {InvalidDate}

\* the days of the school holidays
ESTONIAN_HOLIDAYS == {7}

isHoliday(date) == date \in ESTONIAN_HOLIDAYS

Digits == <<"0", "1", "2", "3", "4", "5", "6", "7", "8", "9">>

\* the dayOfWeek values of a request: a digit, or none
DayOfWeekInputs == {<<Digits[d + 1]>> : d \in 0..7} \cup {Undefined}

\* parseInt of a text of one digit, of no text and of another text
parseInt(s) ==
    IF s # Undefined /\ Len(s) = 1 /\ \E d \in 0..9 : Digits[d + 1] = s[1]
    THEN CHOOSE d \in 0..9 : Digits[d + 1] = s[1]
    ELSE NaN

\* Date.prototype.getDay
getDay(date) == IF date = InvalidDate THEN NaN ELSE date % 7

\* date.setDate(date.getDate() + n)
setDate(date, n) ==
    IF date = InvalidDate \/ date + n > MaxDay THEN InvalidDate ELSE date + n

\* a !== b on numbers
StrictNotEqual(a, b) == a = NaN \/ b = NaN \/ a # b

\* a <= b on Dates
DateLessEq(a, b) == a # InvalidDate /\ b # InvalidDate /\ a <= b

\* the handler up to its first loop
generateBulkBegin(db, role, groupId, startDate, endDate, dayOfWeek) ==
    IF role # "admin" THEN [NoBulk EXCEPT !.pc = "responded", !.status = 403]
    ELSE IF groupId \notin DOMAIN db.groups
    THEN [NoBulk EXCEPT !.pc = "responded", !.status = 404]
    ELSE [pc |-> "find", currentDate |-> startDate, end |-> endDate,
          dayOfWeek |-> parseInt(dayOfWeek), created |-> 0, status |-> 0]

\* one test of the first loop, and its body
generateBulkFind(b) ==
    IF StrictNotEqual(getDay(b.currentDate), b.dayOfWeek)
    THEN [b EXCEPT !.currentDate = setDate(@, 1)]
    ELSE [b EXCEPT !.pc = "generate"]

\* one test of the second loop, and its body
generateBulkWeek(b) ==
    IF DateLessEq(b.currentDate, b.end)
    THEN [b EXCEPT !.created = IF isHoliday(b.currentDate) THEN @ ELSE @ + 1,
                   !.currentDate = setDate(@, 7)]
    ELSE [b EXCEPT !.pc = "insert"]

\* the ids of n schedules that Schedule.insertMany creates
InsertedIds(scheds, n) ==
    LET top == CHOOSE m \in scheds \cup {0} : \A i \in scheds : i <= m IN
    (top + 1)..(top + n)

GenerateBulkBegin ==
    \E role \in {"admin", "teacher"}, groupId \in GroupIds, startDate \in StartDates,
       endDate \in EndDates, dayOfWeek \in DayOfWeekInputs :
        /\ bulk.pc \in {"idle", "responded"}
        /\ Cardinality(schedules) <= MaxSchedules
        /\ bulk' = generateBulkBegin(DB, role, groupId, startDate, endDate, dayOfWeek)
        /\ UNCHANGED <<groups, students, parents, nextStudent, nextParent, response,
                       requests, updates, schedules, attendance>>

GenerateBulkFind ==
    /\ bulk.pc = "find"
    /\ bulk' = generateBulkFind(bulk)
    /\ UNCHANGED <<groups, students, parents, nextStudent, nextParent, response,
                   requests, updates, schedules, attendance>>

GenerateBulkWeek ==
    /\ bulk.pc = "generate"
    /\ bulk' = generateBulkWeek(bulk)
    /\ UNCHANGED <<groups, students, parents, nextStudent, nextParent, response,
                   requests, updates, schedules, attendance>>

GenerateBulkInsert ==
    /\ bulk.pc = "insert"
    /\ schedules' = schedules \cup InsertedIds(schedules, bulk.created)
    /\ bulk' = [bulk EXCEPT !.pc = "responded", !.status = 201]
    /\ UNCHANGED <<groups, students, parents, nextStudent, nextParent, response,
                   requests, updates, attendance>>

\* the steps of a request that has begun
GenerateBulkStep == GenerateBulkFind \/ GenerateBulkWeek \/ GenerateBulkInsert

NextBulk == GenerateBulkBegin \/ GenerateBulkStep

\* the handler runs on when it can
SpecBulk == Init /\ [][NextBulk]_vars /\ WF_vars(GenerateBulkStep)

(***************************************************************************)
(* Properties.                                                             *)
(***************************************************************************)
\* the students of store db that exist and whose group is g
StudentsOf(db, g) == {s \in DOMAIN db.students : db.students[s].group = g}

\* the parents of the students of group g in store db
ParentsOfStudentsOf(db, g) == {db.students[s].parent : s \in StudentsOf(db, g)} \ {Null}

\* the requests the properties about single requests range over
ProbeInputs ==
    [roles |-> {"admin"}, names |-> {NameXY}, emails |-> {EmailA, EmailAPadded, EmailB},
     payloadEmails |-> {EmailA, EmailAPadded}, fields |-> {NoFields, NewFields},
     observe |-> FALSE]

\* the documents of a store, without its id counters
Documents(db) == [groups |-> db.groups, students |-> db.students, parents |-> db.parents]

\* the emails of a parents payload, as the parent schema stores them
PayloadEmails(body) ==
    {EmailSetter(body.parents[i].email) : i \in 1..Len(body.parents)}

C2_ParentLinksStudent ==
    \A s \in DOMAIN students :
        (students[s].parent # Null /\ students[s].group # Null) =>
            /\ students[s].parent \in DOMAIN parents
            /\ s \in parents[students[s].parent].students
            /\ students[s].group \in DOMAIN groups
            /\ students[s].parent \in groups[students[s].group].parents

\* C3 (invariant 3): no stored parent has an empty students set and is in
\* no group's parents set.
C3_NoOrphanParent ==
    \A p \in DOMAIN parents :
        ~ (/\ parents[p].students = {}
           /\ \A g \in DOMAIN groups : p \notin groups[g].parents)

HoldersOf(db, e) == {p \in DOMAIN db.parents : db.parents[p].email = Trim(ToLowerCase(e))}

\* POST /students given email e answers 201: the new student's parent holds
\* the normalized email and is the record that held it before, if any
C5_PostResolves(g, n, e) ==
    LET r == postStudent(DB, "admin", g, n, e)
        p == r.db.students[nextStudent].parent
    IN  r.status = 201 =>
            /\ HoldersOf(r.db, e) = {p}
            /\ HoldersOf(DB, e) # {} => (HoldersOf(DB, e) = {p} /\ r.db.nextParent = nextParent)

\* PUT /students/:id given email e answers 200: the student's parent is the
\* record that held the normalized email before, if any, and a new record
\* holding it otherwise
C5_PutResolves(s, g, n, e) ==
    LET r == putStudent(DB, "admin", s, g, n, e)
        p == r.db.students[s].parent
    IN  r.status = 200 =>
            /\ HoldersOf(DB, e) # {} => (HoldersOf(DB, e) = {p} /\ r.db.nextParent = nextParent)
            /\ HoldersOf(DB, e) = {} => (p = nextParent /\ HoldersOf(r.db, e) = {p})

\* PATCH /groups/:id/full answers 200: every payload email is held by one
\* record of the group's parents, the one that held it before, if any
C5_PatchResolves(g, body) ==
    LET r == patchGroupFull(DB, "admin", g, body) IN
    r.status = 200 =>
        \A i \in 1..Len(body.parents) :
            LET e == body.parents[i].email IN
            /\ Cardinality(HoldersOf(r.db, e)) = 1
            /\ HoldersOf(r.db, e) \subseteq r.db.groups[g].parents
            /\ HoldersOf(DB, e) # {} => HoldersOf(r.db, e) = HoldersOf(DB, e)

UnknownStudentIn(body) ==
    \E i \in 1..Len(body.studentIds) :
        body.studentIds[i] # Null /\ body.studentIds[i] \notin DOMAIN students

\* C6 (fail fast): a bulk roster replace by an administrator of an existing
\* group whose studentIds name a student that does not exist answers 400
\* "students were not found" and leaves every document as it was.
C6_UnknownStudentFailsFast ==
    \A g \in DOMAIN groups, body \in BodyInputs(ProbeInputs) :
        UnknownStudentIn(body) =>
            LET r == patchGroupFull(DB, "admin", g, body) IN
            /\ r.status = 400
            /\ r.message = "One or more students were not found"
            /\ r.db = DB

\* a group with a student and a parent is asked to take new fields, a
\* student of another group and an unknown student
C6_Witness ==
    \E g \in DOMAIN groups, s \in DOMAIN students, u \in 1..(MaxStudents + 1) :
        LET body == [name |-> NewFields.name, location |-> NewFields.location,
                     description |-> NewFields.description,
                     studentIds |-> <<s, u>>, parents |-> <<>>]
        IN  /\ u \notin DOMAIN students
            /\ groups[g].students # {}
            /\ groups[g].parents # {}
            /\ students[s].group \notin {g, Null}
            /\ patchGroupFull(DB, "admin", g, body).status = 400

\* the ids of the body's studentIds
RequestedIds(body) == {body.studentIds[i] : i \in 1..Len(body.studentIds)} \ {Null}

OnlyChildOfParentIn(s, a) ==
    /\ s \in DOMAIN students
    /\ a \in DOMAIN groups
    /\ students[s].group = a
    /\ students[s].parent # Null
    /\ \A t \in DOMAIN students \ {s} :
           ~ (students[t].group = a /\ students[t].parent = students[s].parent)

\* C9 (move by bulk replace): student S of group A, whose parent P no other
\* student of A has, is listed in a successful bulk replace of group B:
\* afterwards S.group = B, S is in B.students and not in A.students, P is in
\* B.parents and not in A.parents.
C9_MoveByBulk ==
    [][\A a \in GroupIds, b \in GroupIds, s \in StudentIds,
          body \in BodyInputs(StoreInputs) :
         (/\ a # b
          /\ OnlyChildOfParentIn(s, a)
          /\ s \in RequestedIds(body)
          /\ patchGroupFull(DB, "admin", b, body).status = 200
          /\ PatchGroupFullReq(FALSE, "admin", b, body))
         => /\ students'[s].group = b
            /\ s \in groups'[b].students
            /\ s \notin groups'[a].students
            /\ students[s].parent \in groups'[b].parents
            /\ students[s].parent \notin groups'[a].parents]_vars

\* C10 (move by student update): student S of group A, whose parent P no
\* other student of A has, is moved by PUT /students/:id with groupId = B
\* and no parent email: afterwards S.group = B, S is in B.students and not
\* in A.students, P is in B.parents and not in A.parents.
C10_MoveByUpdate ==
    \A a \in DOMAIN groups, b \in DOMAIN groups, s \in DOMAIN students,
       n \in ProbeInputs.names \cup {Undefined} :
        (a # b /\ OnlyChildOfParentIn(s, a)) =>
            LET r == putStudent(DB, "admin", s, b, n, Undefined)
                P == students[s].parent
            IN  /\ r.status = 200
                /\ r.db.students[s].group = b
                /\ r.db.students[s].parent = P
                /\ s \in r.db.groups[b].students
                /\ s \notin r.db.groups[a].students
                /\ P \in r.db.groups[b].parents
                /\ P \notin r.db.groups[a].parents

\* the student is on A's roster, its parent in A.parents and not in
\* B.parents, and the update moves both
C10_Witness ==
    \E a \in DOMAIN groups, b \in DOMAIN groups, s \in DOMAIN students :
        LET r == putStudent(DB, "admin", s, b, Undefined, Undefined) IN
        /\ a # b
        /\ OnlyChildOfParentIn(s, a)
        /\ s \in groups[a].students
        /\ students[s].parent \in groups[a].parents
        /\ students[s].parent \notin groups[b].parents
        /\ r.status = 200
        /\ students[s].parent \in r.db.groups[b].parents
        /\ students[s].parent \notin r.db.groups[a].parents

\* C11 (orphan cleanup on student removal): DELETE /students/:id removes
\* student S of group G whose parent P no other student of G has:
\* afterwards G.parents does not contain P.
C11_OrphanCleanupOnDelete ==
    [][\A g \in GroupIds, s \in StudentIds :
         (/\ OnlyChildOfParentIn(s, g)
          /\ deleteStudent(DB, "admin", s).status = 200
          /\ DeleteStudentReq(FALSE, "admin", s))
         => students[s].parent \notin groups'[g].parents]_vars

\* a bulk replace body that sets no group field
RosterBody(studentIds, parentPayload) ==
    [name |-> Undefined, location |-> Undefined, description |-> Undefined,
     studentIds |-> studentIds, parents |-> parentPayload]

\* group g holds s1 and s2, both with the stored parent p, which no other
\* student has
TwoStudentsOfOneParent(g, s1, s2, p) ==
    /\ s1 # s2
    /\ p # Null
    /\ p \in DOMAIN parents
    /\ groups[g].students = {s1, s2}
    /\ \A s \in DOMAIN students :
           students[s].parent = p <=> s \in {s1, s2}
    /\ students[s1].group = g
    /\ students[s2].group = g

\* the parents payloads whose entries have an email, none that of parent p
PayloadsWithout(p) ==
    {ps \in PayloadInputs(ProbeInputs) :
        \A i \in 1..Len(ps) :
            /\ ps[i].email # Undefined
            /\ EmailSetter(ps[i].email) # parents[p].email}

ParentListsItsStudents(p) ==
    /\ p \in DOMAIN parents
    /\ parents[p].students = {t \in DOMAIN students : students[t].parent = p}

\* parent p after student s has been detached from it: gone when s was its
\* last student, otherwise kept with the other students; no other parent is
\* deleted
DetachedFrom(db, s, p) ==
    /\ IF parents[p].students \ {s} = {}
       THEN p \notin DOMAIN db.parents
       ELSE /\ p \in DOMAIN db.parents
            /\ db.parents[p].students = parents[p].students \ {s}
    /\ \A q \in DOMAIN parents \ {p} : q \in DOMAIN db.parents

NamedAs(db, p, n) ==
    /\ p \in DOMAIN db.parents
    /\ db.parents[p].firstName = normalizeParentName(n).firstName
    /\ db.parents[p].lastName = normalizeParentName(n).lastName

\* the names a request supplies for a parent
SuppliedNames == {NameXY, NameZ}

\* POST /students with name n and the email of the stored parent p
C14_PostUpdates(db, p, e, n) ==
    \A g \in DOMAIN db.groups :
        LET r == postStudent(db, "admin", g, n, e) IN
        r.status = 201 => NamedAs(r.db, p, n)

\* PUT /students/:id with name n and the email of the stored parent p
C14_PutUpdates(db, p, e, n) ==
    \A s \in DOMAIN db.students, g \in DOMAIN db.groups \cup {Null} :
        LET r == putStudent(db, "admin", s, g, n, e) IN
        r.status = 200 => NamedAs(r.db, p, n)

\* PATCH /groups/:id/full with a parents entry of name n and the email of
\* the stored parent p
C14_PatchUpdates(db, p, e, n) ==
    \A g \in DOMAIN db.groups, ids \in RosterInputs :
        LET r == patchGroupFull(db, "admin", g,
                                RosterBody(ids, <<[email |-> e, name |-> n]>>))
        IN  r.status = 200 => NamedAs(r.db, p, n)

\* C14 (name update on resolve): a parent is stored under an email with
\* one name; POST /students, PUT /students/:id with parentEmail, or a
\* parents entry of PATCH /groups/:id/full then resolves that email with a
\* supplied name: afterwards the stored parent's firstName and lastName are
\* the normalized parts of the supplied name.
C14_NameUpdateOnResolve ==
    \A g \in DOMAIN groups, e1 \in StoreInputs.emails, e2 \in StoreInputs.emails,
       n1 \in SuppliedNames, n2 \in SuppliedNames :
        LET stored == postStudent(DB, "admin", g, n1, e1)
            p == ParentFindOne(stored.db, e1)
        IN  (stored.status = 201 /\ EmailSetter(e2) = EmailSetter(e1)) =>
                /\ C14_PostUpdates(stored.db, p, e2, n2)
                /\ C14_PutUpdates(stored.db, p, e2, n2)
                /\ C14_PatchUpdates(stored.db, p, e2, n2)

\* C15 (guards of the bulk replace): PATCH /groups/:id/full answers 403 to
\* every caller whose role is not admin and 404 to an admin naming a group
\* that is not stored, whatever the body; in both cases the store is left
\* as it was.
C15_Guards ==
    \A g \in 1..(MaxGroups + 1), body \in BodyInputs(ProbeInputs) :
        /\ \A role \in Roles \ {"admin"} :
               LET r == patchGroupFull(DB, role, g, body) IN
               r.status = 403 /\ r.db = DB
        /\ g \notin DOMAIN groups =>
               LET r == patchGroupFull(DB, "admin", g, body) IN
               r.status = 404 /\ r.db = DB

\* a body that an admin runs with success and with changes on a stored
\* group is refused to a teacher, and is answered 404 on a deleted group
C15_Witness ==
    \E g \in DOMAIN groups, h \in GroupIds \ DOMAIN groups,
       body \in BodyInputs(StoreInputs) :
        LET r == patchGroupFull(DB, "admin", g, body) IN
        /\ r.status = 200
        /\ r.db.students # students
        /\ r.db.parents # parents
        /\ r.db.groups # groups
        /\ patchGroupFull(DB, "teacher", g, body).status = 403
        /\ patchGroupFull(DB, "admin", h, body).status = 404
        /\ patchGroupFull(DB, "teacher", h, body).status = 403

\* invariant 1 in store db: a student whose group is stored is on its roster
RosterHoldsStudents(db) ==
    \A s \in DOMAIN db.students :
        db.students[s].group \in DOMAIN db.groups =>
            s \in db.groups[db.students[s].group].students

\* the group half of invariant 2 in store db: a student's parent is in the
\* parents set of the student's group
GroupHoldsParents(db) ==
    \A s \in DOMAIN db.students :
        (db.students[s].group \in DOMAIN db.groups /\ db.students[s].parent # Null) =>
            db.students[s].parent \in db.groups[db.students[s].group].parents

\* parent p of store db has no student and is in no group's parents set
Orphan(db, p) ==
    /\ db.parents[p].students = {}
    /\ \A g \in DOMAIN db.groups : p \notin db.groups[g].parents

\* the parents payloads that stop the bulk replace: entries with an email,
\* then an entry without one
AbortingPayloads(I) ==
    {Append(ps, [email |-> Undefined, name |-> n]) :
        ps \in {qs \in PayloadInputs(I) : \A i \in 1..Len(qs) : qs[i].email # Undefined},
        n \in I.names \cup {Undefined}}

EmailRequired == "Parent email is required for each parent entry"

\* C16 (abort on missing parent email): a bulk roster replace that stops
\* with the 'parent email is required' error after the roster step is not
\* answered as a success, and leaves invariant 1 and the group half of
\* invariant 2 as they were, and no Parent that it created for an earlier
\* payload entry without a student and without a group.
C16_AbortOnMissingEmail ==
    \A g \in DOMAIN groups, ids \in RosterInputs, ps \in AbortingPayloads(StoreInputs) :
        LET r == patchGroupFull(DB, "admin", g, RosterBody(ids, ps)) IN
        r.message = EmailRequired =>
            /\ r.status = 400
            /\ RosterHoldsStudents(DB) => RosterHoldsStudents(r.db)
            /\ GroupHoldsParents(DB) => GroupHoldsParents(r.db)
            /\ \A p \in DOMAIN r.db.parents \ DOMAIN parents : ~ Orphan(r.db, p)

\* the parents payloads whose entries all have an email
ValidPayloads(I) ==
    {ps \in PayloadInputs(I) : \A i \in 1..Len(ps) : ps[i].email # Undefined}

\* the bulk replace of g with roster ids and the valid payload ps completes
\* from store db
Completes(db, g, ids, ps) ==
    patchGroupFull(db, "admin", g, RosterBody(ids, ps)).status = 200

\* the attempt stopped by an entry without email that follows the entries
\* of ps, then the run with ps, ends as the run with ps alone
C17_ConvergesAfterMissingEmail(g, ids, ps) ==
    \A n \in StoreInputs.names \cup {Undefined} :
        LET bad == Append(ps, [email |-> Undefined, name |-> n])
            failed == patchGroupFull(DB, "admin", g, RosterBody(ids, bad))
            retried == patchGroupFull(failed.db, "admin", g, RosterBody(ids, ps))
            once == patchGroupFull(DB, "admin", g, RosterBody(ids, ps))
        IN  Documents(retried.db) = Documents(once.db)

\* the attempt stopped by a failing store operation, then the same request
\* run again, ends as the request run once
C17_ConvergesAfterStoreFailure(g, ids, ps) ==
    \A stage \in Stages :
        LET failed == patchGroupFullStopped(DB, g, RosterBody(ids, ps), stage)
            retried == patchGroupFull(failed.db, "admin", g, RosterBody(ids, ps))
            once == patchGroupFull(DB, "admin", g, RosterBody(ids, ps))
        IN  Documents(retried.db) = Documents(once.db)

\* C17 (retry convergence): a bulk roster replace of G stops partway, at an
\* entry without email or at a failing store operation; the bulk replace
\* run again to completion with the same studentIds and a valid parents
\* payload leaves the Group, Student and Parent documents as the valid
\* request run once from the state before the failed attempt leaves them.
C17_RetryConverges ==
    \A g \in DOMAIN groups, ids \in RosterInputs, ps \in ValidPayloads(StoreInputs) :
        Completes(DB, g, ids, ps) =>
            /\ C17_ConvergesAfterMissingEmail(g, ids, ps)
            /\ C17_ConvergesAfterStoreFailure(g, ids, ps)

\* C18 (count-then-remove race): the unused-parent cleanup of a PUT
\* /students/:id that moved a student out of G counted no student of
\* parent P in G; when its $pull runs after a concurrent request has put a
\* student of parent P into G, it still removes P from G.parents, and the
\* student stays in G with parent P.
C18_CountThenRemove ==
    [][\A k \in Slots, s \in StudentIds :
         (/\ s \in DOMAIN students
          /\ students[s].group = requests[k].originalGroup
          /\ students[s].parent = requests[k].parent
          /\ PutPullParent(k))
         => /\ requests[k].parent \notin groups'[requests[k].originalGroup].parents
            /\ students'[s].group = requests[k].originalGroup
            /\ students'[s].parent = requests[k].parent]_vars

\* both requests have completed: the PUT has pulled P from G.parents, the
\* POST it overlapped has put its student of parent P into G, and G.parents
\* does not contain P
C18_Witness ==
    \E k \in Slots, j \in Slots :
        LET move == requests[k]
            insert == requests[j]
        IN  /\ move.op = "PUT" /\ move.pc = "done" /\ move.pulled
            /\ insert.op = "POST" /\ insert.pc = "done"
            /\ move.partners = 1 /\ insert.partners = 1
            /\ insert.group = move.originalGroup
            /\ insert.parent = move.parent
            /\ students[insert.student].group = move.originalGroup
            /\ students[insert.student].parent = move.parent
            /\ move.parent \in DOMAIN parents
            /\ insert.student \in parents[move.parent].students
            /\ insert.student \in groups[move.originalGroup].students
            /\ move.parent \notin groups[move.originalGroup].parents

\* request k has completed and has overlapped one other request
CompletedPair(k) == requests[k].op # "" /\ requests[k].pc = "done" /\ requests[k].partners = 1

\* C19 (concurrent attaches): two requests that overlapped each other and
\* no other request, each attaching a different student to the same group G
\* by POST /students or by PUT /students/:id with groupId = G, have both
\* completed: G.students contains both students.
C19_ConcurrentAttaches ==
    \A k \in Slots, j \in Slots :
        (/\ k # j
         /\ CompletedPair(k)
         /\ CompletedPair(j)
         /\ requests[k].group = requests[j].group
         /\ requests[k].student # requests[j].student)
        => {requests[k].student, requests[j].student} \subseteq groups[requests[k].group].students

\* a POST and a PUT that overlapped have attached two students to a group
\* whose roster was empty before
C19_Witness ==
    \E k \in Slots, j \in Slots :
        /\ CompletedPair(k) /\ requests[k].op = "POST"
        /\ CompletedPair(j) /\ requests[j].op = "PUT"
        /\ requests[k].group = requests[j].group
        /\ requests[k].student # requests[j].student
        /\ groups[requests[k].group].students = {requests[k].student, requests[j].student}

\* C20 (group delete cascade): after DELETE /groups/:id by an admin on a
\* stored group G, G is not stored, no stored student has group G, and the
\* Parent records are as they were.
C20_GroupDeleteCascade ==
    \A g \in DOMAIN groups :
        LET r == deleteGroup(DB, "admin", g) IN
        /\ r.status = 200
        /\ g \notin DOMAIN r.db.groups
        /\ \A s \in DOMAIN r.db.students : r.db.students[s].group # g
        /\ r.db.parents = parents
        /\ \A s \in DOMAIN students : students[s].group # g => s \in DOMAIN r.db.students

\* the deleted group has a student whose parent has no other student, and
\* a student of another group stays
C20_Witness ==
    \E g \in DOMAIN groups, s \in DOMAIN students, t \in DOMAIN students :
        LET r == deleteGroup(DB, "admin", g) IN
        /\ students[s].group = g
        /\ students[s].parent \in DOMAIN parents
        /\ parents[students[s].parent].students = {s}
        /\ students[t].group \notin {g, Null}
        /\ r.status = 200
        /\ DOMAIN r.db.students = {t}
        /\ students[s].parent \in DOMAIN r.db.parents

\* caller may post updates to the stored group
MayPost(caller, group) ==
    /\ group \in DOMAIN groups
    /\ caller.role = "teacher" => group \in caller.assignedGroups

\* C21 (notification failure is contained): POST /updates by a caller that
\* may post to the stored group creates the update; when the notification
\* service then throws, the answer is still 201 with the created update,
\* and the update is stored after the ones that were.
C21_NotificationFailureContained ==
    \A caller \in Callers, group \in GroupIds, content \in Contents :
        MayPost(caller, group) =>
            LET r == postUpdate(DB, updates, caller, group, content, "failed") IN
            /\ r.status = 201
            /\ r.data = Len(updates) + 1
            /\ r.updates = Append(updates, UpdateDoc(group, caller, content))

\* an update is stored, one group is deleted, and a teacher of the other
\* group posts while the notification fails
C21_Witness ==
    \E caller \in Callers, group \in DOMAIN groups :
        LET r == postUpdate(DB, updates, caller, group, "c", "failed") IN
        /\ Len(updates) = 1
        /\ DOMAIN groups # GroupIds
        /\ caller.role = "teacher"
        /\ MayPost(caller, group)
        /\ r.status = 201
        /\ Len(r.updates) = 2
        /\ r.updates[2].author = caller

\* C22 (teacher visibility of students): for a teacher and every
\* combination of the group and search parameters, every student that
\* GET /students returns belongs to one of the caller's assigned groups.
C22_TeacherVisibility ==
    \A caller \in Callers, queryGroup \in GroupIds \cup {Null}, search \in Searches :
        caller.role = "teacher" =>
            \A s \in getStudents(DB, caller, queryGroup, search) :
                students[s].group \in caller.assignedGroups

\* the positions of the documents of att for the pair (schedule, student)
RecordsOf(att, schedule, student) ==
    {i \in 1..Len(att) : att[i].schedule = schedule /\ att[i].student = student}

\* the documents of att for the other pairs
OtherRecords(att, schedule, student) ==
    SelectSeq(att, LAMBDA a : ~(a.schedule = schedule /\ a.student = student))

\* C23 (attendance uniqueness), as written: a mark on an existing schedule
\* leaves exactly one document for the pair, whose present, notes and
\* markedBy values are those of the mark.
C23_LastMarkVerbatim ==
    [][\A id \in schedules, studentId \in StudentIds, present \in BOOLEAN,
          notes \in NoteTexts, markedBy \in Markers, strips \in BOOLEAN :
            (/\ attendance' # attendance
             /\ attendance' = markAttendance(attendance, schedules, id, studentId,
                                             present, notes, markedBy, strips).attendance)
            => \E i \in 1..Len(attendance') :
                 /\ RecordsOf(attendance', id, studentId) = {i}
                 /\ attendance'[i] = AttendanceDoc(id, studentId, present, notes, markedBy)]_vars

\* C23 (attendance uniqueness), amended: there is at most one document for
\* each pair (schedule, student); a mark on an existing schedule leaves
\* exactly one document for its pair, with the present and markedBy values
\* of the mark and, when the mark gives notes, these notes without the
\* surrounding whitespace; the documents of the other pairs stay as they
\* are.
C23_AttendanceUnique ==
    /\ \A i \in 1..Len(attendance), j \in 1..Len(attendance) :
         (attendance[i].schedule = attendance[j].schedule
             /\ attendance[i].student = attendance[j].student) => i = j
    /\ \A id \in schedules, studentId \in StudentIds, present \in BOOLEAN,
          notes \in NoteTexts \cup {Undefined}, markedBy \in Markers, strips \in BOOLEAN :
         LET r == markAttendance(attendance, schedules, id, studentId, present, notes,
                                 markedBy, strips) IN
         /\ r.status = 200
         /\ \E i \in 1..Len(r.attendance) :
              /\ RecordsOf(r.attendance, id, studentId) = {i}
              /\ r.attendance[i].present = present
              /\ r.attendance[i].markedBy = markedBy
              /\ notes # Undefined => r.attendance[i].notes = Trim(notes)
         /\ OtherRecords(r.attendance, id, studentId) = OtherRecords(attendance, id, studentId)

\* a pair marked present by one user with notes is marked absent by the
\* other with other, padded notes, next to the document of another pair
C23_Witness ==
    \E i \in 1..Len(attendance) :
        LET a == attendance[i]
            r == markAttendance(attendance, schedules, a.schedule, a.student, FALSE,
                                <<" ", "y">>, "u2", TRUE) IN
        /\ Len(attendance) = 2
        /\ a = AttendanceDoc(a.schedule, a.student, TRUE, <<"x">>, "u1")
        /\ a.schedule \in schedules
        /\ Len(r.attendance) = 2
        /\ r.attendance[i] = AttendanceDoc(a.schedule, a.student, FALSE, <<"y">>, "u2")

\* C24 (bulk schedule generation terminates): a request that POST
\* /schedules/generate-bulk accepts for an existing group, with any
\* dayOfWeek, startDate and endDate, comes to its response.
C24_BulkTerminates == (bulk.pc = "find") ~> (bulk.pc = "responded")

C26_GroupParentsExist ==
    \A g \in DOMAIN groups : groups[g].parents \subseteq DOMAIN parents

\* C27 (single roster membership): after any sequence of student
\* create/update/delete and bulk roster replace, run one at a time, the
\* ones that end in a validation error included, every id in the students
\* set of a group G is the id of a Student whose group is G.
C27_RosterMembersBelong ==
    \A g \in DOMAIN groups :
        \A s \in groups[g].students : s \in DOMAIN students /\ students[s].group = g

\* C28 (referential integrity of Parent.students): after any sequence of
\* student create/update/delete, bulk roster replace and group delete, run
\* one at a time, every id in the students set of a Parent P is the id of
\* a Student whose parent is P.
C28_ParentStudentsExist ==
    \A p \in DOMAIN parents :
        \A s \in parents[p].students : s \in DOMAIN students /\ students[s].parent = p

\* C29 (no dangling Student.parent): after any sequence of student
\* create/update/delete and bulk roster replace, run one at a time, every
\* Student whose parent is set references a Parent that exists.
C29_StudentParentExists ==
    \A s \in DOMAIN students :
        students[s].parent # Null => students[s].parent \in DOMAIN parents

\* the Parent records with the email, as the store keeps it
ParentsWithEmail(email) == {p \in DOMAIN parents : parents[p].email = EmailSetter(email)}

\* C30 (parent uniqueness under concurrency): two POST /students requests
\* with the same parent email that overlapped each other and no other
\* request have both completed: exactly one Parent has that email and
\* both requests refer to it.
C30_OneParentPerEmail ==
    \A k \in Slots, j \in Slots :
        (/\ k # j
         /\ CompletedPair(k) /\ CompletedPair(j)
         /\ requests[k].op = "POST" /\ requests[j].op = "POST"
         /\ requests[k].email = requests[j].email)
        => /\ Cardinality(ParentsWithEmail(requests[k].email)) = 1
           /\ requests[k].parent = requests[j].parent

=============================================================================
